---- MODULE Spec2Model ----
(***************************************************************************)
(* Cheby1Lowpass (src/BsgBikeSim2014/cheby1lowpass.cpp): a 4th order IIR   *)
(* filter over two ring buffers _x, _y of _size slots and a write index    *)
(* _n.                                                                     *)
(*                                                                         *)
(* Numbers.  A float is the binary32 value m * 2^e, kept as the record     *)
(* [nan, m, e] with m odd (or m = e = 0 for zero), or NaN.  The            *)
(* coefficients are the binary64 values nearest to the decimal literals of *)
(* the source.  Every arithmetic step of the code is evaluated exactly on  *)
(* arbitrary-size integers (sequences of 15-bit limbs) and then rounded as *)
(* IEEE 754 does, to nearest with ties to even: each double product, the   *)
(* double difference and the double sum to 53 bits, the store into the     *)
(* float _y[_n] to 24 bits (FLT_EVAL_METHOD 0, no contraction into fused   *)
(* multiply-add).  Not modelled: the sign of zero, infinities, overflow    *)
(* and subnormals, none of which the bounded sample sets can produce.      *)
(***************************************************************************)
EXTENDS Integers, Sequences, FiniteSets, TLC

\* ------------------------------------------------------------------ bounds
MaxCalls == 6          \* filter() calls on the single instance of Spec
MaxDistinctCalls == 6  \* filter() calls in SpecDistinct
MaxPairCalls == 3      \* filter() calls per instance in SpecPair

\* ------------------------------------------------- arbitrary-size naturals
\* A natural number is the sequence of its limbs, least significant first,
\* without leading zero limbs; <<>> is zero.
LimbBits == 15
Base == 2 ^ LimbBits

Lo(u) == IF u = <<>> THEN 0 ELSE Head(u)
Hi(u) == IF u = <<>> THEN <<>> ELSE Tail(u)

RECURSIVE BNorm(_)
BNorm(u) ==
    IF u = <<>> THEN <<>>
    ELSE IF u[Len(u)] = 0 THEN BNorm(SubSeq(u, 1, Len(u) - 1))
    ELSE u

RECURSIVE BAdd(_, _, _)
BAdd(u, v, c) ==
    IF u = <<>> /\ v = <<>> THEN (IF c = 0 THEN <<>> ELSE <<c>>)
    ELSE LET t == Lo(u) + Lo(v) + c
         IN  <<t % Base>> \o BAdd(Hi(u), Hi(v), t \div Base)

\* u - v - c, for u >= v + c; may leave leading zero limbs.
RECURSIVE BSub(_, _, _)
BSub(u, v, c) ==
    IF u = <<>> THEN <<>>
    ELSE LET t == Lo(u) - Lo(v) - c
         IN  <<t % Base>> \o BSub(Hi(u), Hi(v), IF t < 0 THEN 1 ELSE 0)

\* -1, 0, 1 as u <, =, > v: the limbs are compared from the top one down.
RECURSIVE BCmpFrom(_, _, _)
BCmpFrom(u, v, k) ==
    IF k = 0 THEN 0
    ELSE IF u[k] < v[k] THEN -1
    ELSE IF u[k] > v[k] THEN 1
    ELSE BCmpFrom(u, v, k - 1)

BCmp(u, v) ==
    IF Len(u) < Len(v) THEN -1
    ELSE IF Len(u) > Len(v) THEN 1
    ELSE BCmpFrom(u, v, Len(u))

\* u * d + c for a single limb d > 0.
RECURSIVE BMulSmall(_, _, _)
BMulSmall(u, d, c) ==
    IF u = <<>> THEN (IF c = 0 THEN <<>> ELSE <<c>>)
    ELSE LET t == Head(u) * d + c
         IN  <<t % Base>> \o BMulSmall(Tail(u), d, t \div Base)

RECURSIVE BMul(_, _)
BMul(u, v) ==
    IF u = <<>> \/ v = <<>> THEN <<>>
    ELSE LET low == IF Head(v) = 0 THEN <<>> ELSE BMulSmall(u, Head(v), 0)
             high == BMul(u, Tail(v))
         IN  BAdd(low, IF high = <<>> THEN <<>> ELSE <<0>> \o high, 0)

\* Quotient (with leading zero limbs) and remainder of u by a limb d > 0.
RECURSIVE BDivSmall(_, _)
BDivSmall(u, d) ==
    IF u = <<>> THEN [q |-> <<>>, r |-> 0]
    ELSE LET hi == BDivSmall(Tail(u), d)
             t == hi.r * Base + Head(u)
         IN  [q |-> <<t \div d>> \o hi.q, r |-> t % d]

\* u * 2^k
BShl(u, k) ==
    IF u = <<>> THEN <<>>
    ELSE [j \in 1..(k \div LimbBits) |-> 0]
             \o BMulSmall(u, 2 ^ (k % LimbBits), 0)

\* floor(u / 2^k), and whether a non-zero bit was shifted out: whole limbs
\* are dropped first, the remaining bits are divided out.
Dropped(u, k) == IF k \div LimbBits < Len(u) THEN k \div LimbBits ELSE Len(u)

ShrResult(u, drop, dv) ==
    [q |-> BNorm(dv.q),
     sticky |-> dv.r # 0 \/ \E j \in 1..drop : u[j] # 0]

BShr(u, k) ==
    ShrResult(u, Dropped(u, k),
              BDivSmall(SubSeq(u, Dropped(u, k) + 1, Len(u)),
                        2 ^ (k % LimbBits)))

RECURSIVE SmallBitLen(_)
SmallBitLen(v) == IF v = 0 THEN 0 ELSE 1 + SmallBitLen(v \div 2)

\* The number of bits of u.
BitLen(u) ==
    IF u = <<>> THEN 0
    ELSE (Len(u) - 1) * LimbBits + SmallBitLen(u[Len(u)])

\* u / 2^k rounded to the nearest integer, ties to the even one (k >= 1):
\* q is the quotient, half the first bit shifted out, sticky whether a
\* later bit shifted out is set.
RoundPick(q, half, sticky) ==
    IF half = 1 /\ (sticky \/ Lo(q) % 2 = 1) THEN BAdd(q, <<1>>, 0) ELSE q

RoundHalf(h, sticky) == RoundPick(BNorm(h.q), h.r, sticky)

RoundTail(s) == RoundHalf(BDivSmall(s.q, 2), s.sticky)

RoundShift(u, k) == RoundTail(BShr(u, k - 1))

RECURSIVE IntToBig(_)
IntToBig(v) == IF v = 0 THEN <<>> ELSE <<v % Base>> \o IntToBig(v \div Base)

RECURSIVE BigToInt(_)
BigToInt(u) == IF u = <<>> THEN 0 ELSE Head(u) + Base * BigToInt(Tail(u))

\* --------------------------------------------------------------- exact reals
\* s * m * 2^e with s in {-1, 0, 1} and m an arbitrary-size natural.
Dyadic(sg, mag, ex) == [s |-> sg, m |-> mag, e |-> ex]
DZero == Dyadic(0, <<>>, 0)

DNeg(A) == Dyadic(-A.s, A.m, A.e)
DAbs(A) == Dyadic(A.s * A.s, A.m, A.e)

DMul(A, B) ==
    IF A.s = 0 \/ B.s = 0 THEN DZero
    ELSE Dyadic(A.s * B.s, BNorm(BMul(A.m, B.m)), A.e + B.e)

\* sa * ma * 2^ex + sb * mb * 2^ex for non-zero signs; c is BCmp(ma, mb).
DAddSigned(sa, ma, sb, mb, ex, c) ==
    IF sa = sb THEN Dyadic(sa, BAdd(ma, mb, 0), ex)
    ELSE IF c = 0 THEN DZero
    ELSE IF c > 0 THEN Dyadic(sa, BNorm(BSub(ma, mb, 0)), ex)
    ELSE Dyadic(sb, BNorm(BSub(mb, ma, 0)), ex)

DAddAligned(sa, ma, sb, mb, ex) ==
    DAddSigned(sa, ma, sb, mb, ex, BCmp(ma, mb))

Min(p, q) == IF p < q THEN p ELSE q

DAdd(A, B) ==
    IF A.s = 0 THEN B
    ELSE IF B.s = 0 THEN A
    ELSE DAddAligned(A.s, BShl(A.m, A.e - Min(A.e, B.e)),
                     B.s, BShl(B.m, B.e - Min(A.e, B.e)), Min(A.e, B.e))

DLeq(A, B) == DAdd(B, DNeg(A)).s >= 0

\* A rounded to p significant bits, to nearest, ties to even.
DRound(A, p) ==
    LET len == BitLen(A.m)
    IN  IF len <= p THEN A
        ELSE Dyadic(A.s, RoundShift(A.m, len - p), A.e + len - p)

\* --------------------------------------------------------- double and float
DoubleBits == 53
FloatBits == 24

\* The double operations of the code.
MulD(A, B) == DRound(DMul(A, B), DoubleBits)
SubD(A, B) == DRound(DAdd(A, DNeg(B)), DoubleBits)
AddD(A, B) == DRound(DAdd(A, B), DoubleBits)

\* A float: [nan, m, e] is m * 2^e with m odd, or zero, or NaN.
RECURSIVE MkFloat(_, _)
MkFloat(mant, ex) ==
    IF mant = 0 THEN [nan |-> FALSE, m |-> 0, e |-> 0]
    ELSE IF mant % 2 = 0 THEN MkFloat(mant \div 2, ex + 1)
    ELSE [nan |-> FALSE, m |-> mant, e |-> ex]

Zero == MkFloat(0, 0)
One == MkFloat(1, 0)
NaN == [nan |-> TRUE, m |-> 0, e |-> 0]

IsNaN(v) == v.nan

\* float -> double (exact)
FToD(f) ==
    IF f.m = 0 THEN DZero
    ELSE IF f.m < 0 THEN Dyadic(-1, IntToBig(-f.m), f.e)
    ELSE Dyadic(1, IntToBig(f.m), f.e)

\* double -> float (rounded to 24 bits)
FloatOf(R) == MkFloat(R.s * BigToInt(R.m), R.e)

DToF(A) == FloatOf(DRound(A, FloatBits))

\* C's % on ints: the remainder has the sign of the dividend.
CMod(p, m) == IF p >= 0 THEN p % m ELSE -((-p) % m)

\* ------------------------------------------------------------- coefficients
\* The double a decimal literal denotes: sg * (ip + 0.d1 d2 ..), the decimals
\* given in groups of four digits, rounded to the nearest double.
RECURSIVE DigitsToBig(_, _)
DigitsToBig(groups, acc) ==
    IF groups = <<>> THEN acc
    ELSE DigitsToBig(Tail(groups),
                     BAdd(IF acc = <<>> THEN <<>> ELSE BMulSmall(acc, 10000, 0),
                          IntToBig(Head(groups)), 0))

\* qs.q / 10000^k, keeping track of a non-zero remainder.
RECURSIVE DivGroups(_, _)
DivGroups(qs, k) ==
    IF k = 0 THEN qs
    ELSE LET dv == BDivSmall(qs.q, 10000)
         IN  DivGroups([q |-> BNorm(dv.q), sticky |-> qs.sticky \/ dv.r # 0],
                       k - 1)

GuardBits == 120

\* qs: the literal's magnitude times 2^GuardBits, truncated, and whether the
\* truncation dropped anything; that goes into one more bit below.
LiteralRound(sg, qs) ==
    DRound(Dyadic(sg,
                  BAdd(BMulSmall(qs.q, 2, 0),
                       IF qs.sticky THEN <<1>> ELSE <<>>, 0),
                  -(GuardBits + 1)),
           DoubleBits)

Literal(sg, ip, groups) ==
    LiteralRound(sg,
                 DivGroups([q |-> BShl(DigitsToBig(<<ip>> \o groups, <<>>),
                                       GuardBits),
                            sticky |-> FALSE],
                           Len(groups)))

\* const double a[] = { 0.000416599204407, 0.00166639681763, 0.00249959522644,
\*                      0.00166639681763, 0.000416599204407 };
a == [i \in 0..4 |->
        << Literal(1, 0, <<0004, 1659, 9204, 4070>>),
           Literal(1, 0, <<0016, 6639, 6817, 6300>>),
           Literal(1, 0, <<0024, 9959, 5226, 4400>>),
           Literal(1, 0, <<0016, 6639, 6817, 6300>>),
           Literal(1, 0, <<0004, 1659, 9204, 4070>>) >>[i + 1]]

\* const double b[] = { 1.0, -3.18063854887, 3.86119434899, -2.11215535511,
\*                      0.438265142262 };
b == [i \in 0..4 |->
        << Literal(1, 1, <<0>>),
           Literal(-1, 3, <<1806, 3854, 8870>>),
           Literal(1, 3, <<8611, 9434, 8990>>),
           Literal(-1, 2, <<1121, 5535, 5110>>),
           Literal(1, 0, <<4382, 6514, 2262>>) >>[i + 1]]

\* _size, the buffer size, declared in the class header: order + 1, with
\* "order: 4" (line 10) and the five elements of a and b that the loop
\* bound  i < _size  indexes.
size == 5

\* ------------------------------------------------------------ filter steps
\* _y[_n] = b[0]*_x[_n];   the double product, stored into a float
Store0(xv) ==
    IF IsNaN(xv) THEN NaN ELSE DToF(MulD(b[0], FToD(xv)))

\* The double value of  acc + (b[i]*xv - a[i]*yv)  for finite operands.
AccumulateD(acc, i, xv, yv) ==
    AddD(FToD(acc), SubD(MulD(b[i], FToD(xv)), MulD(a[i], FToD(yv))))

\* Variant of the accumulation that skips a NaN feedback value.
Accumulate_skipnan(acc, i, xv, yv) ==
    IF IsNaN(acc) \/ IsNaN(xv) THEN NaN
    ELSE DToF(AccumulateD(acc, i, xv, IF IsNaN(yv) THEN Zero ELSE yv))

\* _y[_n] += b[i]*xv - a[i]*yv;   the double sum, stored into a float
Accumulate(acc, i, xv, yv) ==
    IF IsNaN(acc) \/ IsNaN(xv) \/ IsNaN(yv) THEN NaN
    ELSE DToF(AccumulateD(acc, i, xv, yv))

\* Variants of the history index with a wrong sign or a wrong wrap length.
HistIdx_plus(nn, i) == CMod(nn + i + size, size)
HistIdx_order(nn, i) == CMod(nn - i + size - 1, size)

\* (_n - i + _size) % _size
HistIdx(nn, i) == CMod(nn - i + size, size)

\* Variants of the index advance: a step of two, a wrap at the order.
NextIdx_skip(nn) == CMod(nn + 2, size)
NextIdx_order(nn) == CMod(nn + 1, size - 1)

\* _n = (_n + 1) % _size;
NextIdx(nn) == CMod(nn + 1, size)

\* --------------------------------------------------------------- sample sets
Instances == {1, 2}
Samples == {Zero, One, MkFloat(-1, -1), NaN}
DistinctSamples == {MkFloat(k, -3) : k \in 1..7}
PairSamples == {Zero, One, MkFloat(-1, -1)}

Range(f) == {f[k] : k \in DOMAIN f}

\* --------------------------------------------------------------------- state
VARIABLES
    x,      \* x[self][k]: float _x[_size] of instance self
    y,      \* y[self][k]: float _y[_size] of instance self
    n,      \* n[self]:    _n of instance self
    ins,    \* ins[self]:  the samples passed to filter(), in call order
    outs,   \* outs[self]: the values filter() returned, in call order
    last    \* last[self]: the slot written and the slots read by the last call

vars == <<x, y, n, ins, outs, last>>

\* Variant of the constructor that leaves a slot of _y unzeroed.
Cheby1Lowpass_dirty ==
    [x |-> [k \in 0..(size - 1) |-> Zero],
     y |-> [k \in 0..(size - 1) |-> IF k = size - 1 THEN One ELSE Zero],
     n |-> 0]

\* Cheby1Lowpass::Cheby1Lowpass(): _x{0.0f}, _y{0.0f}, _n{0} { }
Cheby1Lowpass ==
    [x |-> [k \in 0..(size - 1) |-> Zero],
     y |-> [k \in 0..(size - 1) |-> Zero],
     n |-> 0]

NoCall == [w |-> 0, ri |-> <<>>, rx |-> <<>>, ry |-> <<>>]

Init ==
    /\ x = [self \in Instances |-> Cheby1Lowpass.x]
    /\ y = [self \in Instances |-> Cheby1Lowpass.y]
    /\ n = [self \in Instances |-> Cheby1Lowpass.n]
    /\ ins = [self \in Instances |-> <<>>]
    /\ outs = [self \in Instances |-> <<>>]
    /\ last = [self \in Instances |-> NoCall]

\* for (int i = 1; i < _size; ++i)
\*     _y[_n] += b[i]*_x[(_n - i + _size) % _size]
\*             - a[i]*_y[(_n - i + _size) % _size];
\* Returns the buffer _y after the loop and, per iteration, the slot and the
\* two values it read.
RECURSIVE Loop(_, _, _, _, _)
Loop(xs, ys, nn, i, rd) ==
    IF i < size
    THEN LET h == HistIdx(nn, i)
             ys1 == [ys EXCEPT ![nn] = Accumulate(ys[nn], i, xs[h], ys[h])]
             rd1 == [ri |-> Append(rd.ri, h),
                     rx |-> Append(rd.rx, xs[h]),
                     ry |-> Append(rd.ry, ys[h])]
         IN  Loop(xs, ys1, nn, i + 1, rd1)
    ELSE [y |-> ys, rd |-> rd]

\* float result = _y[_n];  _n = (_n + 1) % _size;  return result;
\* on the buffers xs1 and lp.y left by the stores and the loop.
StepResult(xs1, nn, lp) ==
    [x |-> xs1,
     y |-> lp.y,
     n |-> NextIdx(nn),
     result |-> lp.y[nn],
     rd |-> [w |-> nn, ri |-> lp.rd.ri, rx |-> lp.rd.rx, ry |-> lp.rd.ry]]

\* _x[_n] = sample;  _y[_n] = b[0]*_x[_n];  then the loop.
StoreAndLoop(xs1, ys, nn) ==
    StepResult(xs1, nn,
               Loop(xs1, [ys EXCEPT ![nn] = Store0(xs1[nn])], nn, 1,
                    [ri |-> <<>>, rx |-> <<>>, ry |-> <<>>]))

\* The body of Cheby1Lowpass::filter on one instance's fields.
FilterStep(xs, ys, nn, sample) ==
    StoreAndLoop([xs EXCEPT ![nn] = sample], ys, nn)

\* The effect of a call on instance self, r being what FilterStep computed:
\* the instance's own fields, and the record of the call.
Effect(self, sample, r) ==
    /\ x' = [x EXCEPT ![self] = r.x]
    /\ y' = [y EXCEPT ![self] = r.y]
    /\ n' = [n EXCEPT ![self] = r.n]
    /\ ins' = [ins EXCEPT ![self] = Append(@, sample)]
    /\ outs' = [outs EXCEPT ![self] = Append(@, r.result)]
    /\ last' = [last EXCEPT ![self] = r.rd]

\* Variant of filter() whose write index is shared by all instances.
filter_static(self, sample) ==
    LET r == FilterStep(x[self], y[self], n[self], sample)
    IN  /\ x' = [x EXCEPT ![self] = r.x]
        /\ y' = [y EXCEPT ![self] = r.y]
        /\ n' = [other \in Instances |-> r.n]
        /\ ins' = [ins EXCEPT ![self] = Append(@, sample)]
        /\ outs' = [outs EXCEPT ![self] = Append(@, r.result)]
        /\ last' = [last EXCEPT ![self] = r.rd]

\* float Cheby1Lowpass::filter(float sample), called on instance self.
filter(self, sample) ==
    Effect(self, sample, FilterStep(x[self], y[self], n[self], sample))

\* ------------------------------------------------------------ specifications
\* One instance, fed any sample sequence.
FilterCall ==
    \E sample \in Samples :
        /\ Len(ins[1]) < MaxCalls
        /\ filter(1, sample)

Next == FilterCall

Spec == Init /\ [][Next]_vars

\* One instance, fed pairwise distinct finite samples.
FilterDistinct ==
    \E sample \in DistinctSamples \ Range(ins[1]) :
        /\ Len(ins[1]) < MaxDistinctCalls
        /\ filter(1, sample)

NextDistinct == FilterDistinct

SpecDistinct == Init /\ [][NextDistinct]_vars

\* Two instances, their calls interleaved in any order.
FilterEither ==
    \E self \in Instances, sample \in PairSamples :
        /\ Len(ins[self]) < MaxPairCalls
        /\ filter(self, sample)

NextPair == FilterEither

SpecPair == Init /\ [][NextPair]_vars

\* ------------------------------------------------------------------- claims
Calls(self) == Len(ins[self])

\* The sample and the output of call j of an instance; zero before the first.
In(self, j) == IF j <= 0 THEN Zero ELSE ins[self][j]
Out(self, j) == IF j <= 0 THEN Zero ELSE outs[self][j]

Finite(v) == ~IsNaN(v)

\* The direct-form recurrence over a linear history: out_k from the samples
\* inp = s_1..s_k and the earlier outputs prev = out_1..out_(k-1), with
\* s_j = out_j = 0 for j <= 0; the terms i = 1..4 are added in this order.
RECURSIVE RefAcc(_, _, _, _, _)
RefAcc(inp, prev, k, i, acc) ==
    IF i > 4 THEN acc
    ELSE RefAcc(inp, prev, k, i + 1,
                Accumulate(acc, i,
                           IF k - i <= 0 THEN Zero ELSE inp[k - i],
                           IF k - i <= 0 THEN Zero ELSE prev[k - i]))

RefOut(inp, prev, k) == RefAcc(inp, prev, k, 1, Store0(inp[k]))

\* C1: the value the k-th filter() call on a fresh instance returned equals
\* the direct-form recurrence  b[0]*s_k + sum over i in 1..4 of
\* (b[i]*s_(k-i) - a[i]*out_(k-i))  over the unbounded linear history of the
\* samples and of the returned values: in every state, for the call made
\* last (every earlier call is the last call of an earlier state).
RingMatchesLinearHistory ==
    Calls(1) >= 1 => Out(1, Calls(1)) = RefOut(ins[1], outs[1], Calls(1))

\* C1 witness: six calls, so the buffers have wrapped, with a non-zero first
\* sample and a non-zero sixth output.
RingWrapped ==
    /\ Calls(1) >= 6
    /\ Finite(In(1, 1)) /\ In(1, 1) # Zero
    /\ Finite(Out(1, 6)) /\ Out(1, 6) # Zero

\* 0.000416599204407, the value the first output is stated to have.
StatedImpulse0 == DToF(Literal(1, 0, <<0004, 1659, 9204, 4070>>))

\* C2: on a fresh filter the first call filter(1.0) returns 0.000416599204407.
FirstImpulseOutput ==
    (Calls(1) >= 1 /\ In(1, 1) = One)
        => Out(1, 1) = StatedImpulse0

\* C3 (as stated): the 6th call of a fresh filter fed distinct samples reads
\* the 1st call's input and output as its oldest history slot (i = 4).
SixthReadsFirst ==
    Calls(1) = 6
        => /\ last[1].rx[4] = In(1, 1)
           /\ last[1].ry[4] = Out(1, 1)

\* C3 (amended): the 6th call of a fresh filter fed distinct samples reads,
\* as its oldest history slot (i = 4), slot 1 holding the 2nd call's input and
\* output; slot 0, written by the 1st call, is the one the 6th call overwrites.
SixthReadsSecond ==
    Calls(1) = 6
        => /\ last[1].w = 0
           /\ last[1].ri[4] = 1
           /\ last[1].rx[4] = In(1, 2)
           /\ last[1].ry[4] = Out(1, 2)
           /\ x[1][0] = In(1, 6)
           /\ y[1][0] = Out(1, 6)

\* C3 witness: the sixth call has been made, on distinct samples.
SixthCallMade ==
    /\ Calls(1) = 6
    /\ Cardinality(Range(ins[1])) = 6
    /\ In(1, 1) # In(1, 2)

\* C4 (as stated): between calls, after at least one call, x[n] and y[n] hold
\* the most recent input and output and x[(n-k) mod 5], y[(n-k) mod 5] the
\* k-th older ones, k = 1..4.
NewestAtN ==
    Calls(1) >= 1
        => \A k \in 0..4 :
              /\ x[1][(n[1] - k) % 5] = In(1, Calls(1) - k)
              /\ y[1][(n[1] - k) % 5] = Out(1, Calls(1) - k)

\* C4 (amended): between calls, after at least one call, the slot before the
\* write index, (n-1) mod 5, holds the most recent input and output, and
\* (n-1-k) mod 5 the k-th older ones, k = 1..4 (zero before the first call).
NewestBeforeN ==
    Calls(1) >= 1
        => \A k \in 0..4 :
              /\ x[1][(n[1] - 1 - k) % 5] = In(1, Calls(1) - k)
              /\ y[1][(n[1] - 1 - k) % 5] = Out(1, Calls(1) - k)

\* C4 witness: the buffers have wrapped and the last two samples differ.
WrappedHistory ==
    /\ Calls(1) >= 6
    /\ In(1, Calls(1)) # In(1, Calls(1) - 1)
    /\ In(1, 1) # Zero

\* C5: the write index is 0 after construction and k mod 5 after k calls, so
\* it stays in [0, 5) and is back at 0 after exactly 5 calls.
IndexIsCallsMod5 ==
    /\ n[1] = Calls(1) % 5
    /\ n[1] \in 0..4
    /\ (Calls(1) = 0 \/ Calls(1) = 5) => n[1] = 0

\* C5 witness: five calls made, the index back at 0.
IndexBackAtZero == Calls(1) = 5 /\ n[1] = 0

AllZero(s) == \A k \in DOMAIN s : s[k] = Zero

\* C6: a fresh filter fed only zero samples returns exactly zero from every
\* call and both buffers stay all-zero.
ZeroInZeroOut ==
    AllZero(ins[1])
        => /\ AllZero(outs[1])
           /\ AllZero(x[1])
           /\ AllZero(y[1])

\* C6 witness: six zero samples fed.
SixZerosFed == Calls(1) >= 6 /\ AllZero(ins[1])

\* C7, outputs: two instances agree on every prefix of calls on which they
\* were fed the same samples, whatever the interleaving of their calls.
SameInputsSameOutputs ==
    \A k \in 0..Calls(1) :
        (k <= Calls(2) /\ SubSeq(ins[1], 1, k) = SubSeq(ins[2], 1, k))
            => SubSeq(outs[1], 1, k) = SubSeq(outs[2], 1, k)

\* C7, frame: a step that is no call on an instance leaves its x, y and n.
OthersUntouched ==
    \A self \in Instances :
        ins'[self] = ins[self]
            => /\ x'[self] = x[self]
               /\ y'[self] = y[self]
               /\ n'[self] = n[self]

\* C7: two independently constructed instances fed the same input sequence
\* produce identical output sequences under any interleaving of their calls,
\* and a call on one instance leaves the other's x, y and n unchanged.
StateIsolation == []SameInputsSameOutputs /\ [][OthersUntouched]_vars

\* C7 witness: both instances were fed the same three samples, not all zero,
\* and returned non-zero outputs.
BothFedSame ==
    /\ Calls(1) >= 3
    /\ ins[1] = ins[2]
    /\ In(1, 1) # Zero
    /\ Out(2, 3) # Zero

\* A NaN sample at call p, only finite samples after it.
LoneNaNAt(p) ==
    /\ p \in 1..Calls(1)
    /\ IsNaN(In(1, p))
    /\ \A q \in (p + 1)..Calls(1) : Finite(In(1, q))

\* C8 (as stated): 5 further calls after a NaN sample followed by finite
\* samples, neither buffer holds NaN and the returned outputs are NaN-free.
NaNFlushed ==
    \A p \in 1..Calls(1) :
        (LoneNaNAt(p) /\ Calls(1) >= p + 5)
            => /\ \A k \in 0..4 : Finite(x[1][k]) /\ Finite(y[1][k])
               /\ \A q \in (p + 5)..Calls(1) : Finite(Out(1, q))

\* C8 (amended): after a NaN sample followed by finite samples, the output of
\* that call and of every later call is NaN; 5 further calls later the input
\* buffer x holds no NaN, while every slot of y holds NaN.
NaNPersists ==
    \A p \in 1..Calls(1) :
        LoneNaNAt(p)
            => /\ \A q \in p..Calls(1) : IsNaN(Out(1, q))
               /\ Calls(1) >= p + 5
                    => /\ \A k \in 0..4 : Finite(x[1][k])
                       /\ \A k \in 0..4 : IsNaN(y[1][k])

\* C8 witness: a NaN sample, then at least five finite ones.
NaNThenFiveFinite ==
    \E p \in 1..Calls(1) : LoneNaNAt(p) /\ Calls(1) >= p + 5

\* Calls after which the step response is taken as settled.
SettleCalls == 6

\* v * (c[0] + c[1] + c[2] + c[3] + c[4]), exactly.
SumTimes(c, v) ==
    DMul(DAdd(DAdd(DAdd(DAdd(c[0], c[1]), c[2]), c[3]), c[4]), FToD(v))

Twenty == Dyadic(1, <<20>>, 0)

\* C9: fed a constant non-zero c, the output settles at c * (sum b / sum a),
\* i.e. out * sum a = c * sum b, here within a twentieth of c * sum b from
\* SettleCalls calls on.
StepSettlesAtDCGain ==
    \A c \in Samples \ {Zero, NaN} :
        (Calls(1) >= SettleCalls /\ \A k \in 1..Calls(1) : In(1, k) = c)
            => DLeq(DMul(Twenty,
                         DAbs(DAdd(SumTimes(a, Out(1, Calls(1))),
                                   DNeg(SumTimes(b, c))))),
                    DAbs(SumTimes(b, c)))

\* The slots read by the last call's loop.
ReadSlots == {last[1].ri[i] : i \in 1..4}

\* C10: the history indices (n - i + 5) mod 5, i = 1..4, of every call lie in
\* [0, 5), are pairwise distinct and differ from the write index n; the same
\* holds of the indices the next call will use.
HistoryIndicesSafe ==
    /\ Calls(1) >= 1
         => /\ Len(last[1].ri) = 4
            /\ ReadSlots \subseteq 0..4
            /\ Cardinality(ReadSlots) = 4
            /\ last[1].w \notin ReadSlots
    /\ \A i \in 1..4 :
         /\ HistIdx(n[1], i) \in 0..4
         /\ HistIdx(n[1], i) # n[1]
         /\ \A j \in 1..4 : i # j => HistIdx(n[1], i) # HistIdx(n[1], j)

\* C10 witness: a call made at write index 0, where n - i is negative for
\* every i, after the buffers have wrapped.
CallAtIndexZero ==
    /\ Calls(1) >= 6
    /\ last[1].w = 0
    /\ last[1].ri = <<4, 3, 2, 1>>

====
